---- MODULE Spec2Model ----
(***************************************************************************)
(* Model of stdlib/public/runtime/BytecodeLayouts.cpp: the layout-string   *)
(* interpreter behind swift_generic_destroy / initWithCopy / initWithTake  *)
(* / assignWithCopy / assignWithTake, and the one-shot patch pass          *)
(* swift_resolve_resilientAccessors.                                       *)
(*                                                                         *)
(* Buffers (layout strings, value memory) are sequences of bytes; byte     *)
(* offset o of a buffer is element o + 1.  A 64-bit word is the tuple of   *)
(* its 8 bytes, least significant first (the targets are little-endian     *)
(* and 64-bit: sizeof(size_t) = sizeof(uintptr_t) = sizeof(uint64_t) = 8). *)
(***************************************************************************)
EXTENDS Integers, Sequences, FiniteSets, TLC

VARIABLES
    layoutStr,      \* metadata->getLayoutString(); the patched buffer of the patch pass
    fieldLayoutStr, \* the source layout string of the patch pass
    interop,        \* build flag SWIFT_OBJC_INTEROP
    takable,        \* metadata->getValueWitnesses()->isBitwiseTakable()
    mem,            \* value buffers: mem[b] is the byte sequence of buffer b
    rc,             \* strong reference count of each heap object
    urc,            \* unowned reference count of each heap object
    live,           \* live[b]: buffer b currently holds an initialized value
    pc,             \* where the running call is: idle, destroy, copy, take, assign,
                    \* resolve, resolveWrite, fatal
    op,             \* the public entry point of the running (or last) call
    dest,           \* its dest / address argument (a buffer)
    src,            \* its src argument (a buffer)
    offset,         \* cursor into the layout string (offset, resp. i in the patch pass)
    addrOffset,     \* running offset into the value
    size,           \* metadata->vw_size()
    result,         \* the value returned by the last completed call (0: none/void)
    log,            \* calls made so far by the running call, in order
    prev,           \* <<offset, addrOffset, Len(log)>> before the last loop iteration
    layoutStrOffset,\* patch pass: where the copied entries start in layoutStr
    refCountBytes,  \* patch pass: byte length of the source entries to walk
    pending,        \* patch pass: <<writeOffset, type>> of the second writeBytes, if due
    hist,           \* the public calls started so far, each with the mem, rc, urc it found
    threads         \* concurrent traversals: per thread, the traversal it runs

vars == <<layoutStr, fieldLayoutStr, interop, takable, mem, rc, urc, live, pc, op,
          dest, src, offset, addrOffset, size, result, log, prev, layoutStrOffset,
          refCountBytes, pending, hist, threads>>

-----------------------------------------------------------------------------
(* Bounds of the model *)

\* longest sequence of entries before End in a generated layout string
MaxEntries == 2
\* number of public calls in one behaviour
MaxCalls == 3
\* number of threads that traverse concurrently
NumThreads == 2
\* number of value variants (which object each field points to, which case each
\* enum holds, whether the first field is at offset 0 or 8)
NumVariants == 3

-----------------------------------------------------------------------------
(* 64-bit words as 8 bytes *)

Byte == 0..255

\* the word holding the small non-negative number n (n < 2^24)
W(n) == <<n % 256, (n \div 256) % 256, (n \div 65536) % 256, 0, 0, 0, 0, 0>>

\* the word holding the small signed number n (-2^24 <= n < 2^24), sign-extended
SignedWord(n) ==
    IF n >= 0 THEN W(n)
    ELSE SubSeq(W(16777216 + n), 1, 3) \o <<255, 255, 255, 255, 255>>

ZeroWord == <<0, 0, 0, 0, 0, 0, 0, 0>>

\* numeric value of the low `n` bytes of w, when it fits the model's integers
\* (bytes 4..n zero); -1 stands for a value outside the modelled range
LowVal(w, n) ==
    IF \A k \in 4..n : w[k] = 0 THEN w[1] + 256 * w[2] + 65536 * w[3] ELSE -1

\* (uintptr_t)(intptr_t)(int32_t)x: the low 4 bytes of x as a signed number
Int32(w) ==
    w[1] + 256 * w[2] + 65536 * w[3]
        + 16777216 * (IF w[4] >= 128 THEN w[4] - 256 ELSE w[4])

\* borrow into byte k of the subtraction a - b
RECURSIVE Borrow(_, _, _)
Borrow(a, b, k) ==
    IF k = 1 THEN 0
    ELSE IF a[k - 1] - b[k - 1] - Borrow(a, b, k - 1) < 0 THEN 1 ELSE 0

\* a faulty variant: the difference does not wrap, a - b is 0 when a < b
Sub64_saturating(a, b) ==
    IF Borrow(a, b, 9) = 0
    THEN [k \in 1..8 |-> (a[k] - b[k] - Borrow(a, b, k) + 256) % 256]
    ELSE ZeroWord

\* a - b on uint64_t (wraps modulo 2^64)
Sub64(a, b) == [k \in 1..8 |-> (a[k] - b[k] - Borrow(a, b, k) + 256) % 256]

\* a >= b on uint64_t
GE64(a, b) == Borrow(a, b, 9) = 0

-----------------------------------------------------------------------------
(* Byte cursor primitives *)

layoutStringHeaderSize == 16

\* the value readBytes<uint64_t / size_t / pointer> returns at byte offset i
readBytes(buf, i) ==
    <<buf[i + 1], buf[i + 2], buf[i + 3], buf[i + 4], buf[i + 5], buf[i + 6], buf[i + 7],
      buf[i + 8]>>

\* writeBytes: the buffer after storing the 8-byte value at byte offset i
writeBytes(buf, i, value) == SubSeq(buf, 1, i) \o value \o SubSeq(buf, i + 9, Len(buf))

-----------------------------------------------------------------------------
(* RefCountingKind: the tag in the top byte of an entry's first word.  The  *)
(* ordinals 0..14 are the indices of destroyTable / retainTable.            *)

End == 0
Error == 1
NativeStrong == 2
NativeUnowned == 3
NativeWeak == 4
Unknown == 5
UnknownUnowned == 6
UnknownWeak == 7
Bridge == 8
Block == 9
ObjC == 10
Custom == 11
Metatype == 12
Generic == 13
Existential == 14
Resilient == 15
SinglePayloadEnumSimple == 16

\* the kinds that reach Handler::handleReference
TableKinds == (1..14) \ {Metatype}

-----------------------------------------------------------------------------
(* The environment: heap objects, sub-metadata, accessors *)

\* heap objects; a pointer to object o is the word W(o), the null pointer W(0)
Objs == {1, 2}

ObjOf(w) == IF \E o \in Objs : w = W(o) THEN CHOOSE o \in Objs : w = W(o) ELSE 0

\* sub-metadata records; a pointer to metadata t is the word W(t)
Types == {1, 2, 3}

TypeOf(w) == IF \E t \in Types : w = W(t) THEN CHOOSE t \in Types : w = W(t) ELSE 0

\* type->getValueWitnesses()->isBitwiseTakable()
isBitwiseTakable(t) == t = 1

\* type->getValueWitnesses()->isValueInline()
isValueInline(t) == t \in {1, 2}

\* address of a layout-string buffer (the pointers layoutStr and fieldLayoutStr)
LayoutBase == 4096
FieldLayoutBase == 8192

\* address of the accessor function that returns metadata t (before or after the
\* layout strings: relative offsets of both signs)
AccessorAddr(t) == IF t = 3 THEN 16384 ELSE 1024 + 8 * t

\* the metadata the function at code address a returns (0: a is no accessor)
AccessorResult(a) ==
    IF \E t \in Types : a = AccessorAddr(t)
    THEN CHOOSE t \in Types : a = AccessorAddr(t) ELSE 0

-----------------------------------------------------------------------------
(* Calls made by the interpreter.  A call is logged as                     *)
(* [fn, args, lvl]: lvl 0 is a call made by the traversal itself, lvl 1 a  *)
(* call made inside a callable of this file (existential_destroy,          *)
(* Block_copyForwarder, existential_initializeWithCopy).                   *)

PtrArg(w) == <<"ptr", w>>
AddrArg(b, o) == <<"addr", <<b, o>>>>
TypeArg(t) == <<"type", <<t>>>>
CodeArg(a) == <<"code", <<a>>>>
\* metadata->getGenericArgs() of the owning metadata
GenericArgs == <<"genericArgs", <<0>>>>

StrongReleaseFns == {"swift_errorRelease", "swift_release", "swift_unknownObjectRelease",
                     "swift_bridgeObjectRelease", "_Block_release"}
StrongRetainFns == {"swift_errorRetain", "swift_retain", "swift_unknownObjectRetain",
                    "swift_bridgeObjectRetain", "objc_retain", "_Block_copy"}

\* effect of a retain/release callable on the counts of the object w points to
Effect(s, fn, w) ==
    LET o == ObjOf(w) IN
    IF o = 0 THEN s
    ELSE IF fn \in StrongReleaseFns THEN [s EXCEPT !.rc[o] = @ - 1]
    ELSE IF fn \in StrongRetainFns THEN [s EXCEPT !.rc[o] = @ + 1]
    ELSE IF fn = "swift_unownedRelease" THEN [s EXCEPT !.urc[o] = @ - 1]
    ELSE IF fn = "swift_unownedRetain" THEN [s EXCEPT !.urc[o] = @ + 1]
    ELSE s

Logged(s, fn, args, lvl) ==
    [s EXCEPT !.log = Append(@, [fn |-> fn, args |-> args, lvl |-> lvl])]

\* a call of a callable taking the pointer w
CallPtr(s, fn, w, lvl) == Effect(Logged(s, fn, <<PtrArg(w)>>, lvl), fn, w)

\* calling through a null function pointer: the process dies
Fatal(s) == [s EXCEPT !.pc = "fatal"]

\* reinterpret_cast<Metadata**>(object)[NumWords_ValueBuffer]
NumWords_ValueBuffer == 3
getExistentialTypeMetadata(bytes, o) == TypeOf(readBytes(bytes, o + 8 * NumWords_ValueBuffer))

\* getResilientTypeMetadata: the accessor at (layoutStr + offset) + relativeOffset,
\* called with the owning metadata's generic arguments
\* a faulty variant: the offset is taken relative to the entry's tag word
ResilientFn_fromEntry(base, buf, o) == base + (o - 8) + Int32(readBytes(buf, o))

ResilientFn(base, buf, o) == base + o + Int32(readBytes(buf, o))
getResilientTypeMetadata(base, buf, o) == AccessorResult(ResilientFn(base, buf, o))

existential_destroy(s, b, o) ==
    LET t == getExistentialTypeMetadata(s.mem[b], o)
        s1 == Logged(s, "existential_destroy", <<AddrArg(b, o)>>, 0)
    IN IF isValueInline(t)
       THEN Logged(s1, "vw_destroy", <<TypeArg(t), AddrArg(b, o)>>, 1)
       ELSE CallPtr(s1, "swift_release", readBytes(s.mem[b], o), 1)

\* vw_initializeBufferWithCopyOfBuffer of the dynamic type of the existential at src
existential_initializeWithCopy(s, d, b, o) ==
    LET t == getExistentialTypeMetadata(s.mem[b], o)
        s1 == Logged(s, "existential_initializeWithCopy", <<AddrArg(d, o), AddrArg(b, o)>>, 0)
    IN Logged(s1, "vw_initializeBufferWithCopyOfBuffer",
              <<TypeArg(t), AddrArg(d, o), AddrArg(b, o)>>, 1)

\* *dest = _Block_copy(*src); a block stored in a value is a heap block, whose copy
\* is the same block with one more reference
Block_copyForwarder(s, d, b, o) ==
    LET p == readBytes(s.mem[b], o)
        s1 == Logged(s, "Block_copyForwarder", <<AddrArg(d, o), AddrArg(b, o)>>, 0)
        s2 == CallPtr(s1, "_Block_copy", p, 1)
    IN [s2 EXCEPT !.mem[d] = writeBytes(@, o, p)]

-----------------------------------------------------------------------------
(* Ownership dispatch tables *)

destroyTable ==
    [k \in 0..14 |->
        CASE k = End -> [fn |-> "skipDestroy", isIndirect |-> FALSE]
          [] k = Error -> [fn |-> "swift_errorRelease", isIndirect |-> TRUE]
          [] k = NativeStrong -> [fn |-> "swift_release", isIndirect |-> TRUE]
          [] k = NativeUnowned -> [fn |-> "swift_unownedRelease", isIndirect |-> TRUE]
          [] k = NativeWeak -> [fn |-> "swift_weakDestroy", isIndirect |-> FALSE]
          [] k = Unknown -> [fn |-> "swift_unknownObjectRelease", isIndirect |-> TRUE]
          [] k = UnknownUnowned ->
                [fn |-> "swift_unknownObjectUnownedDestroy", isIndirect |-> FALSE]
          [] k = UnknownWeak ->
                [fn |-> "swift_unknownObjectWeakDestroy", isIndirect |-> FALSE]
          [] k = Bridge -> [fn |-> "swift_bridgeObjectRelease", isIndirect |-> TRUE]
          [] k = Block ->
                [fn |-> IF interop THEN "_Block_release" ELSE "nullptr", isIndirect |-> TRUE]
          [] k = ObjC ->
                [fn |-> IF interop THEN "swift_unknownObjectRelease" ELSE "nullptr",
                 isIndirect |-> TRUE]
          [] k = Existential -> [fn |-> "existential_destroy", isIndirect |-> FALSE]
          [] OTHER -> [fn |-> "nullptr", isIndirect |-> TRUE]]

retainTable ==
    [k \in 0..14 |->
        CASE k = End -> [fn |-> "skipRetain", isSingle |-> TRUE]
          [] k = Error -> [fn |-> "swift_errorRetain", isSingle |-> TRUE]
          [] k = NativeStrong -> [fn |-> "swift_retain", isSingle |-> TRUE]
          [] k = NativeUnowned -> [fn |-> "swift_unownedRetain", isSingle |-> TRUE]
          [] k = NativeWeak -> [fn |-> "swift_weakCopyInit", isSingle |-> FALSE]
          [] k = Unknown -> [fn |-> "swift_unknownObjectRetain", isSingle |-> TRUE]
          [] k = UnknownUnowned ->
                [fn |-> "swift_unknownObjectUnownedCopyInit", isSingle |-> FALSE]
          [] k = UnknownWeak ->
                [fn |-> "swift_unknownObjectWeakCopyInit", isSingle |-> FALSE]
          [] k = Bridge -> [fn |-> "swift_bridgeObjectRetain", isSingle |-> TRUE]
          [] k = Block ->
                IF interop THEN [fn |-> "Block_copyForwarder", isSingle |-> FALSE]
                ELSE [fn |-> "nullptr", isSingle |-> TRUE]
          [] k = ObjC ->
                [fn |-> IF interop THEN "objc_retain" ELSE "nullptr", isSingle |-> TRUE]
          [] k = Existential ->
                [fn |-> "existential_initializeWithCopy", isSingle |-> FALSE]
          [] OTHER -> [fn |-> "nullptr", isSingle |-> TRUE]]

-----------------------------------------------------------------------------
(* Enum payload classifier *)

\* readTagBytes: the byteCount bytes at byte offset `at` of the value, zero-extended
readTagBytes(addr, at, byteCount) ==
    SubSeq(addr, at + 1, at + byteCount) \o SubSeq(ZeroWord, byteCount + 1, 8)

\* a faulty variant: the payload's sub-layout is not skipped
noPayload_keepCursor(s, o) ==
    [s EXCEPT !.offset = o + 16,
              !.addrOffset = @ + LowVal(readBytes(layoutStr, o + 8), 8)]

\* a faulty variant: the trailing skip is not added to the value offset
noPayload_noSkip(s, o) ==
    [s EXCEPT !.offset = o + 16 + LowVal(readBytes(layoutStr, o), 8)]

\* the state after the noPayload: label is entered with the cursor at o
noPayload(s, o) ==
    LET payloadRefCountBytes == LowVal(readBytes(layoutStr, o), 8)
        skip == LowVal(readBytes(layoutStr, o + 8), 8)
    IN [s EXCEPT !.offset = o + 16 + payloadRefCountBytes, !.addrOffset = @ + skip]

\* handleSinglePayloadEnumSimple on the value bytes addr; s.offset is just after the
\* entry's tag word
handleSinglePayloadEnumSimple(s, addr) ==
    LET byteCountsAndOffset == readBytes(layoutStr, s.offset)
        extraTagBytesPattern == byteCountsAndOffset[8] \div 64
        xiTagBytesPattern == (byteCountsAndOffset[8] \div 8) % 8
        xiTagBytesOffset == LowVal(byteCountsAndOffset, 4)
        payloadSize == LowVal(readBytes(layoutStr, s.offset + 8), 8)
        extraTagBytes == 2 ^ (extraTagBytesPattern - 1)
        \* the cursor after byteCountsAndOffset and payloadSize (read or skipped)
        o2 == s.offset + 16
        zeroTagValue == readBytes(layoutStr, o2)
        xiTagValues == readBytes(layoutStr, o2 + 8)
        xiTagBytes == 2 ^ (xiTagBytesPattern - 1)
    IN IF extraTagBytesPattern # 0
          /\ readTagBytes(addr, s.addrOffset + payloadSize, extraTagBytes) # ZeroWord
       THEN noPayload(s, o2 + 16)
       ELSE IF xiTagBytesPattern # 0
       THEN IF xiTagBytes \notin {1, 2, 4, 8}
            THEN Fatal(s)
            ELSE IF GE64(Sub64(readTagBytes(addr, s.addrOffset + xiTagBytesOffset,
                                            xiTagBytes), zeroTagValue), xiTagValues)
                 THEN [s EXCEPT !.offset = o2 + 32]
                 ELSE noPayload(s, o2 + 16)
       ELSE noPayload(s, o2 + 16)

-----------------------------------------------------------------------------
(* Handlers of the shared traversal: h is "destroy" (DestroyHandler, whose *)
(* params are addr = s.dest) or "copy" (CopyHandler, params dest, src)     *)

handleMetatype(h, s, t, ao) ==
    IF h = "destroy"
    THEN Logged(s, "vw_destroy", <<TypeArg(t), AddrArg(s.dest, ao)>>, 0)
    ELSE Logged(s, "vw_initializeWithCopy",
                <<TypeArg(t), AddrArg(s.dest, ao), AddrArg(s.src, ao)>>, 0)

\* a faulty variant: every kind is treated as direct (the field address is passed)
DestroyHandler_handleReference_direct(s, tag, ao) ==
    LET destroyFunc == destroyTable[tag] IN
    IF destroyFunc.fn = "nullptr" THEN Fatal(s)
    ELSE Logged(s, destroyFunc.fn, <<AddrArg(s.dest, ao)>>, 0)

DestroyHandler_handleReference(s, tag, ao) ==
    LET destroyFunc == destroyTable[tag] IN
    IF destroyFunc.fn = "nullptr" THEN Fatal(s)
    ELSE IF destroyFunc.isIndirect
    THEN CallPtr(s, destroyFunc.fn, readBytes(s.mem[s.dest], ao), 0)
    ELSE IF destroyFunc.fn = "existential_destroy" THEN existential_destroy(s, s.dest, ao)
    ELSE Logged(s, destroyFunc.fn, <<AddrArg(s.dest, ao)>>, 0)

\* a faulty variant: no retain is made for any kind
CopyHandler_handleReference_noRetain(s, tag, ao) ==
    IF retainTable[tag].fn = "nullptr" THEN Fatal(s) ELSE s

CopyHandler_handleReference(s, tag, ao) ==
    LET retainFunc == retainTable[tag] IN
    IF retainFunc.fn = "nullptr" THEN Fatal(s)
    ELSE IF retainFunc.isSingle
    THEN CallPtr(s, retainFunc.fn, readBytes(s.mem[s.dest], ao), 0)
    ELSE IF retainFunc.fn = "existential_initializeWithCopy"
    THEN existential_initializeWithCopy(s, s.dest, s.src, ao)
    ELSE IF retainFunc.fn = "Block_copyForwarder" THEN Block_copyForwarder(s, s.dest, s.src, ao)
    ELSE Logged(s, retainFunc.fn, <<AddrArg(s.dest, ao), AddrArg(s.src, ao)>>, 0)

handleReference(h, s, tag, ao) ==
    IF h = "destroy" THEN DestroyHandler_handleReference(s, tag, ao)
    ELSE CopyHandler_handleReference(s, tag, ao)

\* the accessor call of getResilientTypeMetadata, made with the cursor at o
CallAccessor(s, base, buf, o) ==
    Logged(s, "accessor", <<CodeArg(ResilientFn(base, buf, o)), GenericArgs>>, 0)

\* one call of handleNextRefCount<Handler>; pc "end" stands for the result false
handleNextRefCount(h, s) ==
    LET word == readBytes(layoutStr, s.offset)
        tag == word[8]
        skip == LowVal(word, 7)
        o == s.offset + 8
        ao == s.addrOffset + skip
        s1 == [s EXCEPT !.offset = o, !.addrOffset = ao]
    IN IF tag = End THEN [s1 EXCEPT !.pc = "end"]
       ELSE IF tag = Metatype
       THEN handleMetatype(h, [s1 EXCEPT !.offset = o + 8], TypeOf(readBytes(layoutStr, o)), ao)
       ELSE IF tag = Resilient
       THEN handleMetatype(h, CallAccessor([s1 EXCEPT !.offset = o + 8], LayoutBase, layoutStr, o),
                           getResilientTypeMetadata(LayoutBase, layoutStr, o), ao)
       ELSE IF tag = SinglePayloadEnumSimple
       THEN handleSinglePayloadEnumSimple(s1, s.mem[IF h = "destroy" THEN s.dest ELSE s.src])
       ELSE handleReference(h, s1, tag, ao)

\* a faulty variant: the take loop dispatches through the retain table
initWithTakeStep_retaining(s) == handleNextRefCount("copy", s)

\* a faulty variant: the cursor moves as in the shared loop, the value offset stays
initWithTakeStep_noSkip(s) ==
    [s EXCEPT !.offset = handleNextRefCount("copy", s).offset,
              !.pc = IF handleNextRefCount("copy", s).pc = "end" THEN "end" ELSE "take"]

\* one iteration of the while (true) loop of swift_generic_initWithTake
initWithTakeStep(s) ==
    LET word == readBytes(layoutStr, s.offset)
        tag == word[8]
        skip == LowVal(word, 7)
        o == s.offset + 8
        ao == s.addrOffset + skip
        s1 == [s EXCEPT !.offset = o, !.addrOffset = ao]
        take(st, t) ==
            IF ~isBitwiseTakable(t)
            THEN Logged(st, "vw_initializeWithTake",
                        <<TypeArg(t), AddrArg(s.dest, ao), AddrArg(s.src, ao)>>, 0)
            ELSE st
    IN CASE tag = UnknownWeak ->
              Logged(s1, "swift_unknownObjectWeakTakeInit",
                     <<AddrArg(s.dest, ao), AddrArg(s.src, ao)>>, 0)
         [] tag = Metatype ->
              take([s1 EXCEPT !.offset = o + 8], TypeOf(readBytes(layoutStr, o)))
         [] tag = Existential ->
              take(s1, getExistentialTypeMetadata(s.mem[s.src], ao))
         [] tag = Resilient ->
              take(CallAccessor([s1 EXCEPT !.offset = o + 8], LayoutBase, layoutStr, o),
                   getResilientTypeMetadata(LayoutBase, layoutStr, o))
         [] tag = SinglePayloadEnumSimple ->
              handleSinglePayloadEnumSimple(s1, s.mem[s.src])
         [] tag = End -> [s1 EXCEPT !.pc = "end"]
         [] OTHER -> s1

-----------------------------------------------------------------------------
(* Public entry points, up to the first iteration of their loop *)

\* memcpy(dest, src, size)
memcpy(s, d, b, n) ==
    LET s1 == Logged(s, "memcpy", <<AddrArg(d, 0), AddrArg(b, 0), <<"size", <<n>>>>>>, 0)
    IN [s1 EXCEPT !.mem[d] = SubSeq(s.mem[b], 1, n) \o SubSeq(@, n + 1, Len(@))]

\* handleRefCounts<0, Handler>: the cursor before the first entry
handleRefCounts(h, s) ==
    [s EXCEPT !.pc = h, !.offset = layoutStringHeaderSize, !.addrOffset = 0]

swift_generic_destroy(s, address) ==
    handleRefCounts("destroy", [s EXCEPT !.dest = address])

\* a faulty variant: the retains are made without the bulk copy
swift_generic_initWithCopy_noMemcpy(s, d, b) ==
    handleRefCounts("copy", [s EXCEPT !.dest = d, !.src = b])

swift_generic_initWithCopy(s, d, b) ==
    handleRefCounts("copy", memcpy([s EXCEPT !.dest = d, !.src = b], d, b, size))

swift_generic_initWithTake(s, d, b) ==
    LET s1 == memcpy([s EXCEPT !.dest = d, !.src = b], d, b, size) IN
    IF takable THEN [s1 EXCEPT !.pc = "end"]
    ELSE [s1 EXCEPT !.pc = "take", !.offset = layoutStringHeaderSize, !.addrOffset = 0]

\* the loop of pc = "destroy", "copy" or "take" run to its end (or to the fatal call)
Step(s) ==
    IF s.pc = "take" THEN initWithTakeStep(s) ELSE handleNextRefCount(s.pc, s)

\* (the next state is bound to a variable, so that it is computed once)
RECURSIVE Run(_)
Run(s) ==
    IF s.pc \in {"destroy", "copy", "take"}
    THEN CHOOSE r \in {Run(n) : n \in {Step(s)}} : TRUE
    ELSE s

-----------------------------------------------------------------------------
(* The running call as one record, and its write-back *)

Cur == [pc |-> pc, dest |-> dest, src |-> src, offset |-> offset, addrOffset |-> addrOffset,
        mem |-> mem, rc |-> rc, urc |-> urc, log |-> log, result |-> result]

Set(n) ==
    /\ pc' = n.pc
    /\ dest' = n.dest
    /\ src' = n.src
    /\ offset' = n.offset
    /\ addrOffset' = n.addrOffset
    /\ mem' = n.mem
    /\ rc' = n.rc
    /\ urc' = n.urc
    /\ log' = n.log
    /\ result' = n.result

\* the function whose loop reached End (or that returned early) returns `value`
Return(n, value) == [n EXCEPT !.pc = "idle", !.result = value]

Bufs == {1, 2}

\* the number of public calls started, and what the running (or last) one found
calls == Len(hist)
entry == hist[Len(hist)]

\* a public call name(d, b) starts: the client, the log and the snapshot
Begin(name, d, b, newLive) ==
    /\ pc = "idle"
    /\ calls < MaxCalls
    /\ op' = name
    /\ live' = newLive
    /\ prev' = <<0, 0, 0>>
    /\ hist' = Append(hist, [op |-> name, dest |-> d, src |-> b,
                             mem |-> mem, rc |-> rc, urc |-> urc])
    /\ UNCHANGED <<layoutStr, fieldLayoutStr, interop, takable, size, layoutStrOffset,
                   refCountBytes, pending, threads>>

Fresh == [Cur EXCEPT !.log = <<>>, !.result = 0]

Running ==
    UNCHANGED <<layoutStr, fieldLayoutStr, interop, takable, size, live, op, hist,
                layoutStrOffset, refCountBytes, pending, threads>>

-----------------------------------------------------------------------------
(* Actions: the value operations *)

\* swift_generic_destroy(address, metadata) is called on an initialized value
CallDestroy(b) ==
    /\ live[b]
    /\ Begin("destroy", b, b, [live EXCEPT ![b] = FALSE])
    /\ \E n \in {swift_generic_destroy(Fresh, b)} : Set(n)

\* swift_generic_initWithCopy(dest, src, metadata): dest uninitialized, src initialized
CallInitWithCopy(d, b) ==
    /\ d # b /\ ~live[d] /\ live[b]
    /\ Begin("initWithCopy", d, b, [live EXCEPT ![d] = TRUE])
    /\ \E n \in {swift_generic_initWithCopy(Fresh, d, b)} : Set(n)

\* swift_generic_initWithTake(dest, src, metadata): src is left uninitialized
CallInitWithTake(d, b) ==
    /\ d # b /\ ~live[d] /\ live[b]
    /\ Begin("initWithTake", d, b, [live EXCEPT ![d] = TRUE, ![b] = FALSE])
    /\ \E n \in {swift_generic_initWithTake(Fresh, d, b)} :
            Set(IF n.pc = "end" THEN Return(n, d) ELSE n)

\* a faulty variant: the old value of dest is not destroyed
CallAssignWithCopy_noDestroy(d, b) ==
    /\ d # b /\ live[d] /\ live[b]
    /\ Begin("assignWithCopy", d, b, live)
    /\ \E n \in {swift_generic_initWithCopy(Fresh, d, b)} : Set(n)

\* a faulty variant: the value destroyed is that of src
CallAssignWithCopy_destroySrc(d, b) ==
    /\ d # b /\ live[d] /\ live[b]
    /\ Begin("assignWithCopy", d, b, live)
    /\ \E n \in {swift_generic_destroy([Fresh EXCEPT !.src = b], b)} : Set(n)

\* swift_generic_assignWithCopy(dest, src, metadata): its first statement
CallAssignWithCopy(d, b) ==
    /\ d # b /\ live[d] /\ live[b]
    /\ Begin("assignWithCopy", d, b, live)
    /\ \E n \in {swift_generic_destroy([Fresh EXCEPT !.src = b], d)} : Set(n)

\* swift_generic_assignWithTake(dest, src, metadata): its first statement
CallAssignWithTake(d, b) ==
    /\ d # b /\ live[d] /\ live[b]
    /\ Begin("assignWithTake", d, b, [live EXCEPT ![b] = FALSE])
    /\ \E n \in {swift_generic_destroy([Fresh EXCEPT !.src = b], d)} : Set(n)

\* swift_generic_assignWithCopy(dest, src, metadata) called, against its
\* precondition, with dest == src: its first statement
CallAssignWithCopyAliased(b) ==
    /\ live[b]
    /\ Begin("assignWithCopy", b, b, live)
    /\ \E n \in {swift_generic_destroy([Fresh EXCEPT !.src = b], b)} : Set(n)

\* one handleNextRefCount<DestroyHandler> of swift_generic_destroy; at End the
\* function returns (into the assign function that called it, if one did)
DestroyStep ==
    /\ pc = "destroy"
    /\ prev' = <<offset, addrOffset, Len(log)>>
    /\ \E n \in {handleNextRefCount("destroy", Cur)} :
            Set(IF n.pc # "end" THEN n
                ELSE IF op \in {"assignWithCopy", "assignWithTake"}
                THEN [n EXCEPT !.pc = "assign"]
                ELSE Return(n, 0))
    /\ Running

\* the second statement of swift_generic_assignWithCopy / assignWithTake
AssignInit ==
    /\ pc = "assign"
    /\ prev' = <<0, 0, 0>>
    /\ \E n \in {IF op = "assignWithCopy"
                   THEN swift_generic_initWithCopy(Cur, dest, src)
                   ELSE swift_generic_initWithTake(Cur, dest, src)} :
            Set(IF n.pc = "end" THEN Return(n, dest) ELSE n)
    /\ Running

\* one handleNextRefCount<CopyHandler> of swift_generic_initWithCopy
CopyStep ==
    /\ pc = "copy"
    /\ prev' = <<offset, addrOffset, Len(log)>>
    /\ \E n \in {handleNextRefCount("copy", Cur)} :
            Set(IF n.pc = "end" THEN Return(n, dest) ELSE n)
    /\ Running

\* one iteration of the loop of swift_generic_initWithTake
TakeStep ==
    /\ pc = "take"
    /\ prev' = <<offset, addrOffset, Len(log)>>
    /\ \E n \in {initWithTakeStep(Cur)} :
            Set(IF n.pc = "end" THEN Return(n, dest) ELSE n)
    /\ Running

-----------------------------------------------------------------------------
(* swift_resolve_resilientAccessors(layoutStr, layoutStrOffset,            *)
(* fieldLayoutStr, refCountBytes, fieldType)                               *)

\* a faulty variant: the Metatype tag is not or-ed into the word written
tagAndOffset_sizeOnly(sizeBits) == sizeBits

\* (((uint64_t)RefCountingKind::Metatype) << 56) | size
tagAndOffset(sizeBits) == [sizeBits EXCEPT ![8] = Metatype]

\* layoutStrOffset + currentOffset - layoutStringHeaderSize
writeOffset(currentOffset) == layoutStrOffset + currentOffset - layoutStringHeaderSize

\* one iteration of the while loop with the cursor i, up to and including the first
\* writeBytes of the Resilient case: the cursor, the patched buffer, the write due
resolveIteration(i, buf, lg) ==
    LET currentOffset == i
        word == readBytes(fieldLayoutStr, i)
        tag == word[8]
        sizeBits == [word EXCEPT ![8] = 0]
        r == [pc |-> "resolve", offset |-> i + 8, layoutStr |-> buf, pending |-> <<>>,
              log |-> lg]
    IN CASE tag = Resilient ->
              [r EXCEPT !.pc = "resolveWrite",
                        !.offset = i + 16,
                        !.layoutStr = writeBytes(buf, writeOffset(currentOffset),
                                                 tagAndOffset(sizeBits)),
                        !.pending = <<writeOffset(currentOffset) + 8,
                                      getResilientTypeMetadata(FieldLayoutBase, fieldLayoutStr,
                                                               i + 8)>>,
                        !.log = Append(lg,
                                    [fn |-> "accessor",
                                     args |-> <<CodeArg(ResilientFn(FieldLayoutBase,
                                                                    fieldLayoutStr, i + 8)),
                                                GenericArgs>>,
                                     lvl |-> 0])]
         [] tag = Metatype -> [r EXCEPT !.offset = i + 8 + 8]
         [] tag = SinglePayloadEnumSimple -> [r EXCEPT !.offset = i + 8 + (3 * 8) + (4 * 8)]
         [] OTHER -> r

ValueState ==
    <<interop, takable, mem, rc, urc, live, dest, src, addrOffset, size, result, prev, threads>>

\* the patch pass is called, once, on a freshly copied buffer
CallResolve ==
    /\ pc = "idle"
    /\ hist = <<>>
    /\ refCountBytes > 0
    /\ op' = "resolve"
    /\ pc' = "resolve"
    /\ offset' = layoutStringHeaderSize
    /\ log' = <<>>
    /\ hist' = <<[op |-> "resolve", dest |-> 0, src |-> 0, mem |-> mem, rc |-> rc,
                  urc |-> urc, layoutStr |-> layoutStr, fieldLayoutStr |-> fieldLayoutStr]>>
    /\ UNCHANGED <<layoutStr, fieldLayoutStr, layoutStrOffset, refCountBytes, pending,
                   ValueState>>

\* the loop test and one iteration; the function returns when the test fails
ResolveStep ==
    /\ pc = "resolve"
    /\ IF offset < layoutStringHeaderSize + refCountBytes
       THEN \E r \in {resolveIteration(offset, layoutStr, log)} :
                /\ pc' = r.pc
                /\ offset' = r.offset
                /\ layoutStr' = r.layoutStr
                /\ pending' = r.pending
                /\ log' = r.log
       ELSE /\ pc' = "idle"
            /\ UNCHANGED <<offset, layoutStr, pending, log>>
    /\ UNCHANGED <<fieldLayoutStr, layoutStrOffset, refCountBytes, op, hist, ValueState>>

\* a faulty variant: the metadata pointer is never written
ResolveWrite_dropped ==
    /\ pc = "resolveWrite"
    /\ pending' = <<>>
    /\ pc' = "resolve"
    /\ UNCHANGED <<layoutStr, fieldLayoutStr, layoutStrOffset, refCountBytes, op, hist,
                   offset, log, ValueState>>

\* the second writeBytes of the Resilient case: the metadata pointer
ResolveWrite ==
    /\ pc = "resolveWrite"
    /\ layoutStr' = writeBytes(layoutStr, pending[1], W(pending[2]))
    /\ pending' = <<>>
    /\ pc' = "resolve"
    /\ UNCHANGED <<fieldLayoutStr, layoutStrOffset, refCountBytes, op, hist, offset, log,
                   ValueState>>

-----------------------------------------------------------------------------
(* The producer of layout strings and of the values they describe (the     *)
(* type-layout builder and the client of the witnesses): the inputs        *)

TagWord(tag, skip) == [W(skip) EXCEPT ![8] = tag]

\* the bytes of a sequence of words
RECURSIVE Bytes(_)
Bytes(words) == IF words = <<>> THEN <<>> ELSE Head(words) \o Bytes(Tail(words))

\* Single-payload enums over `refs` native strong references: the discriminator
\* parameters and the representations of their cases: the first payload word p (a
\* pointer to an object in the payload case, obj) and the word after the payload, tag.
EnumVariants == <<
    \* no discriminator at all
    [refs |-> 2, extra |-> 0, xi |-> 0, xiOff |-> 0, zero |-> W(0), cnt |-> W(0),
     cases |-> << [obj |-> TRUE, p |-> W(0), tag |-> W(0)] >>],
    \* one extra tag byte after the 8-byte payload
    [refs |-> 2, extra |-> 1, xi |-> 0, xiOff |-> 0, zero |-> W(0), cnt |-> W(0),
     cases |-> << [obj |-> TRUE, p |-> W(0), tag |-> W(0)],
                  [obj |-> FALSE, p |-> W(0), tag |-> W(1)],
                  [obj |-> FALSE, p |-> W(0), tag |-> W(2)] >>],
    \* the null pointer as the only extra inhabitant (8 tag bytes in the payload)
    [refs |-> 1, extra |-> 0, xi |-> 4, xiOff |-> 0, zero |-> W(0), cnt |-> W(1),
     cases |-> << [obj |-> TRUE, p |-> W(0), tag |-> W(0)], [obj |-> FALSE, p |-> W(0), tag |-> W(0)] >>],
    \* extra inhabitants 3 and 4 of the payload's first byte
    [refs |-> 1, extra |-> 0, xi |-> 1, xiOff |-> 0, zero |-> W(3), cnt |-> W(2),
     cases |-> << [obj |-> TRUE, p |-> W(0), tag |-> W(0)], [obj |-> FALSE, p |-> W(3), tag |-> W(0)], [obj |-> FALSE, p |-> W(4), tag |-> W(0)] >>],
    \* one extra tag byte and the null pointer as extra inhabitant
    [refs |-> 1, extra |-> 1, xi |-> 4, xiOff |-> 0, zero |-> W(0), cnt |-> W(1),
     cases |-> << [obj |-> TRUE, p |-> W(0), tag |-> W(0)], [obj |-> FALSE, p |-> W(0), tag |-> W(0)], [obj |-> FALSE, p |-> W(0), tag |-> W(1)] >>],
    \* two extra tag bytes, the second one set
    [refs |-> 2, extra |-> 2, xi |-> 0, xiOff |-> 0, zero |-> W(0), cnt |-> W(0),
     cases |-> << [obj |-> TRUE, p |-> W(0), tag |-> W(0)], [obj |-> FALSE, p |-> W(0), tag |-> W(256)] >>],
    \* extra inhabitants 5 and 6 of the payload's first two bytes
    [refs |-> 1, extra |-> 0, xi |-> 2, xiOff |-> 0, zero |-> W(5), cnt |-> W(2),
     cases |-> << [obj |-> TRUE, p |-> W(0), tag |-> W(0)], [obj |-> FALSE, p |-> W(6), tag |-> W(0)] >>] >>

\* a field of a generated value or layout string: [k: kind, x: type or enum
\* variant, sub: the fields of an enum's payload]
Field(k, x, sub) == [k |-> k, x |-> x, sub |-> sub]

RefFields == {Field(t, 0, <<>>) : t \in TableKinds \ {Existential}}
TypedFields == {Field(t, y, <<>>) : t \in {Metatype, Resilient, Existential}, y \in Types}
EnumFields == {Field(SinglePayloadEnumSimple, y,
                     [j \in 1..EnumVariants[y].refs |-> Field(NativeStrong, 0, <<>>)]) :
                  y \in 1..Len(EnumVariants)}
Fields == RefFields \cup TypedFields \cup EnumFields

\* the fields that follow the first one in a generated value
CoreFields == {Field(t, 0, <<>>) : t \in {NativeStrong, UnknownWeak, Custom}}

RECURSIVE FieldWidth(_)
RECURSIVE FieldsWidth(_)
\* the bytes a field takes in the value: an enum takes its payload and one word
\* for its extra tag bytes
FieldWidth(f) ==
    IF f.k = Existential THEN 32
    ELSE IF f.k = SinglePayloadEnumSimple THEN FieldsWidth(f.sub) + 8
    ELSE 8
FieldsWidth(fs) == IF fs = <<>> THEN 0 ELSE FieldWidth(Head(fs)) + FieldsWidth(Tail(fs))

RECURSIVE EntryWords(_, _, _, _)
RECURSIVE Entries(_, _, _, _, _)

\* the entry of field f, `skip` bytes after the previous entry's field, when the
\* entry is stored at byte offset `at` of the layout string at address `base`
EntryWords(f, skip, base, at) ==
    CASE f.k = Metatype -> <<TagWord(Metatype, skip), W(f.x)>>
      [] f.k = Resilient ->
           <<TagWord(Resilient, skip), SignedWord(AccessorAddr(f.x) - (base + at + 8))>>
      [] f.k = SinglePayloadEnumSimple ->
           LET e == EnumVariants[f.x]
               sub == Entries(f.sub, 0, base, at + 56, FALSE)
           IN <<TagWord(SinglePayloadEnumSimple, skip),
                [W(e.xiOff) EXCEPT ![8] = 64 * e.extra + 8 * e.xi],
                W(FieldsWidth(f.sub)), e.zero, e.cnt, W(8 * Len(sub)),
                W(FieldsWidth(f.sub) - FieldWidth(f.sub[Len(f.sub)]))>> \o sub
      [] OTHER -> <<TagWord(f.k, skip)>>

\* the entries of the fields fs, and the End entry if `end`
Entries(fs, skip, base, at, end) ==
    IF fs = <<>> THEN (IF end THEN <<TagWord(End, skip)>> ELSE <<>>)
    ELSE LET es == EntryWords(Head(fs), skip, base, at)
         IN es \o Entries(Tail(fs), FieldWidth(Head(fs)), base, at + 8 * Len(es), end)

\* the layout string of a value whose first field is at offset `first`: the flavor
\* word, the byte length of the entries before End, the entries
LayoutWords(fs, first, base) ==
    LET es == Entries(fs, first, base, layoutStringHeaderSize, TRUE)
    IN <<ZeroWord, W(8 * (Len(es) - 1))>> \o es

\* the object the i-th field of buffer b points to in value variant v
FieldObj(i, b, v) == ((b + v + i) % 2) + 1

\* the case the enum f holds in buffer b in value variant v
EnumCase(f, b, v) ==
    LET cs == EnumVariants[f.x].cases IN cs[((b + v) % Len(cs)) + 1]

\* the number of counted references of the given kind that the i-th field f of
\* buffer b holds to the object FieldObj(i, b, v): ownership as the type system
\* defines it
Owns(f, i, b, v, kind) ==
    IF kind = "urc"
    THEN (IF f.k = NativeUnowned THEN 1 ELSE 0)
    ELSE IF \/ f.k \in {Error, NativeStrong, Unknown, Bridge, Block, ObjC}
            \/ f.k = Existential /\ ~isValueInline(f.x)
         THEN 1
         ELSE IF f.k = SinglePayloadEnumSimple /\ EnumCase(f, b, v).obj THEN Len(f.sub)
         ELSE 0

\* whether a field can be moved by copying its bytes: the type is bitwise-takable
\* when all its fields are
FieldTakable(f) ==
    /\ f.k \notin {NativeWeak, UnknownUnowned, UnknownWeak, Custom, Generic}
    /\ f.k \in {Metatype, Resilient, Existential} => isBitwiseTakable(f.x)

\* the bytes of field f (the i-th field) in buffer b of value variant v
FieldBytes(f, i, b, v) ==
    LET ptr == W(FieldObj(i, b, v)) IN
    CASE f.k = SinglePayloadEnumSimple ->
           LET c == EnumCase(f, b, v)
           IN Bytes([j \in 1..Len(f.sub) |->
                        IF c.obj THEN ptr ELSE IF j = 1 THEN c.p ELSE W(0)] \o <<c.tag>>)
      [] f.k = Existential -> Bytes(<<ptr, W(0), W(0), W(f.x)>>)
      [] f.k \in {Metatype, Resilient} -> Bytes(<<W(0)>>)
      [] OTHER -> Bytes(<<ptr>>)

\* n bytes that are no part of any field
Fill(n) == [k \in 1..n |-> 170] \o <<>>

RECURSIVE ValueBytes(_, _, _, _)
ValueBytes(fs, i, b, v) ==
    IF fs = <<>> THEN <<>>
    ELSE FieldBytes(Head(fs), i, b, v) \o ValueBytes(Tail(fs), i + 1, b, v)

\* the value of buffer b: `first` bytes of padding, the fields, 8 bytes past the end
BufferBytes(fs, first, b, v) ==
    Fill(first) \o ValueBytes(fs, 1, b, v) \o Fill(8)

\* the layouts generated: any field first, core fields after it
FieldSeqs(n) ==
    UNION {{<<f>> \o tl : f \in Fields, tl \in [1..m -> CoreFields]} : m \in 0..(n - 1)}

-----------------------------------------------------------------------------
(* Initial states *)

\* the number of fields among fs (the i-th and later ones) of buffer b that hold a
\* reference of the given kind to object o
RECURSIVE Owners(_, _, _, _, _, _)
Owners(fs, i, b, v, kind, o) ==
    IF fs = <<>> THEN 0
    ELSE (IF FieldObj(i, b, v) = o THEN Owns(Head(fs), i, b, v, kind) ELSE 0)
         + Owners(Tail(fs), i + 1, b, v, kind, o)

\* object o starts with o - 1 references held outside the buffers
InitialCounts(fs, v, lv, kind) ==
    [o \in Objs |-> (o - 1) + (IF lv[1] THEN Owners(fs, 1, 1, v, kind, o) ELSE 0)
                            + (IF lv[2] THEN Owners(fs, 1, 2, v, kind, o) ELSE 0)]

InitValue(fs, v) ==
    LET first == 8 * (v % 2) IN
    /\ layoutStr = Bytes(LayoutWords(fs, first, LayoutBase))
    /\ size = Len(BufferBytes(fs, first, 1, v)) - 8
    /\ live \in {<<TRUE, FALSE>>, <<TRUE, TRUE>>}
    /\ mem = [b \in Bufs |-> IF live[b] THEN BufferBytes(fs, first, b, v)
                             ELSE Fill(size + 8)]
    /\ rc = InitialCounts(fs, v, live, "rc")
    /\ urc = InitialCounts(fs, v, live, "urc")
    /\ interop \in (IF \E i \in 1..Len(fs) : fs[i].k \in {Block, ObjC} THEN BOOLEAN
                    ELSE {FALSE})
    /\ takable = \A i \in 1..Len(fs) : FieldTakable(fs[i])

\* no call is running and none has been made
InitControl ==
    /\ pc = "idle"
    /\ op = "none"
    /\ dest = 0
    /\ src = 0
    /\ offset = 0
    /\ addrOffset = 0
    /\ result = 0
    /\ log = <<>>
    /\ prev = <<0, 0, 0>>
    /\ pending = <<>>
    /\ hist = <<>>

InitRest ==
    /\ fieldLayoutStr = <<>>
    /\ layoutStrOffset = 0
    /\ refCountBytes = 0
    /\ InitControl
    /\ threads = <<>>

Init ==
    /\ \E fs \in FieldSeqs(MaxEntries), v \in 0..(NumVariants - 1) : InitValue(fs, v)
    /\ InitRest

Next ==
    \/ \E b \in Bufs : CallDestroy(b)
    \/ \E d, b \in Bufs : CallInitWithCopy(d, b)
    \/ \E d, b \in Bufs : CallInitWithTake(d, b)
    \/ \E d, b \in Bufs : CallAssignWithCopy(d, b)
    \/ \E d, b \in Bufs : CallAssignWithTake(d, b)
    \/ DestroyStep
    \/ AssignInit
    \/ CopyStep
    \/ TakeStep

Spec == Init /\ [][Next]_vars

\* swift_generic_assignWithCopy alone, on distinct buffers and on one buffer
NextAssign ==
    \/ \E d, b \in Bufs : CallAssignWithCopy(d, b)
    \/ \E b \in Bufs : CallAssignWithCopyAliased(b)
    \/ DestroyStep
    \/ AssignInit
    \/ CopyStep

SpecAssign == Init /\ [][NextAssign]_vars

-----------------------------------------------------------------------------
(* The patch pass: its inputs and its specification *)

PlainField == Field(NativeStrong, 0, <<>>)
ResilientFields == {Field(Resilient, t, <<>>) : t \in {1, 3}}

\* enums nested as the payload of an enum (one and two extra-inhabitant tag bytes)
InnerEnums == {Field(SinglePayloadEnumSimple, y, <<r>>) : y \in {4, 7}, r \in ResilientFields}

\* the payloads of the enums of a source layout string
Payloads ==
    {<<f>> : f \in {PlainField} \cup ResilientFields \cup InnerEnums}
        \cup {<<f, g>> : f, g \in {PlainField} \cup ResilientFields}

ResolveFields ==
    {PlainField, Field(Metatype, 2, <<>>)} \cup ResilientFields
        \cup {Field(SinglePayloadEnumSimple, 3, s) : s \in Payloads}

ResolveSeqs(n) == UNION {[1..m -> ResolveFields] : m \in 1..n}

\* the field's layout string, and the layout string under construction: its
\* header, `lead` bytes of entries of earlier fields, the field's entries copied in,
\* and End
InitBuffers(fs, lead) ==
    /\ fieldLayoutStr = Bytes(LayoutWords(fs, 0, FieldLayoutBase))
    /\ refCountBytes = LowVal(readBytes(fieldLayoutStr, 8), 8)
    /\ layoutStrOffset = layoutStringHeaderSize + lead
    /\ layoutStr = SubSeq(fieldLayoutStr, 1, layoutStringHeaderSize)
                     \o Bytes([j \in 1..(lead \div 8) |-> TagWord(NativeStrong, 0)])
                     \o SubSeq(fieldLayoutStr, layoutStringHeaderSize + 1,
                               layoutStringHeaderSize + refCountBytes)
                     \o TagWord(End, 0)

\* no value is in the buffers of the sequential client
NoValues ==
    /\ interop = FALSE
    /\ mem = [b \in Bufs |-> <<>>]
    /\ live = <<FALSE, FALSE>>

InitResolve ==
    /\ \E fs \in ResolveSeqs(MaxEntries), lead \in {0, 8} : InitBuffers(fs, lead)
    /\ NoValues
    /\ takable = TRUE
    /\ rc = [o \in Objs |-> 0]
    /\ urc = [o \in Objs |-> 0]
    /\ size = 0
    /\ InitControl
    /\ threads = <<>>

NextResolve ==
    \/ CallResolve
    \/ ResolveStep
    \/ ResolveWrite

SpecResolve == InitResolve /\ [][NextResolve]_vars

-----------------------------------------------------------------------------
(* Concurrent traversals.  Each thread runs one traversal on its own value  *)
(* buffers, with its own cursor (offset and addrOffset are locals of the    *)
(* running function); the layout string and the heap objects are shared.    *)

Threads == 1..NumThreads

\* a thread that has not called yet, with the value buffers m; `alone` is for the
\* state its call ends in when no other thread runs, `layout` for the layout string
\* it finds, `torn` and `afterPatch` for what it meets of the patch pass
IdleThread(m) ==
    [op |-> "none", pc |-> "idle", dest |-> 0, src |-> 0, offset |-> 0, addrOffset |-> 0,
     mem |-> m, log |-> <<>>, result |-> 0, alone |-> <<>>, layout |-> <<>>,
     torn |-> FALSE, afterPatch |-> FALSE]

\* a faulty variant: the cursor is one variable that the traversals share (that of
\* the first thread)
ThreadCur_sharedCursor(t) ==
    [pc |-> threads[t].pc, dest |-> threads[t].dest, src |-> threads[t].src,
     offset |-> threads[1].offset, addrOffset |-> threads[1].addrOffset,
     mem |-> threads[t].mem, rc |-> rc, urc |-> urc, log |-> threads[t].log,
     result |-> threads[t].result]

\* the running call of thread t as one record: its locals, its buffers, the heap
ThreadCur(t) ==
    [pc |-> threads[t].pc, dest |-> threads[t].dest, src |-> threads[t].src,
     offset |-> threads[t].offset, addrOffset |-> threads[t].addrOffset,
     mem |-> threads[t].mem, rc |-> rc, urc |-> urc, log |-> threads[t].log,
     result |-> threads[t].result]

\* the record of a thread whose call is in state n
Merged(th, n) ==
    [th EXCEPT !.pc = n.pc, !.dest = n.dest, !.src = n.src, !.offset = n.offset,
               !.addrOffset = n.addrOffset, !.mem = n.mem, !.log = n.log,
               !.result = n.result]

\* what a thread step leaves alone
ThreadFrame ==
    UNCHANGED <<layoutStr, fieldLayoutStr, interop, takable, mem, live, pc, op, dest, src,
                offset, addrOffset, size, result, log, prev, layoutStrOffset,
                refCountBytes, pending, hist>>

\* the entry at offset o of the layout string is a Metatype tag word over a word
\* that is no metadata pointer
HalfWritten(o) == layoutStr[o + 8] = Metatype /\ TypeOf(readBytes(layoutStr, o + 8)) = 0

\* thread t calls swift_generic_destroy(buffer 1), swift_generic_initWithCopy or
\* swift_generic_initWithTake(buffer 2, buffer 1)
ThreadCall(t, name) ==
    /\ threads[t].op = "none"
    /\ \E n \in {CASE name = "destroy" -> swift_generic_destroy(ThreadCur(t), 1)
                   [] name = "initWithCopy" -> swift_generic_initWithCopy(ThreadCur(t), 2, 1)
                   [] name = "initWithTake" -> swift_generic_initWithTake(ThreadCur(t), 2, 1)} :
          /\ threads' = [threads EXCEPT ![t] =
                            [Merged(@, IF n.pc = "end" THEN Return(n, n.dest) ELSE n)
                                EXCEPT !.op = name, !.alone = Run(n), !.layout = layoutStr,
                                       !.afterPatch = (op = "resolve" /\ pc = "idle")]]
          /\ rc' = n.rc
          /\ urc' = n.urc
    /\ ThreadFrame

\* one iteration of the loop thread t is in
ThreadStep(t) ==
    /\ threads[t].pc \in {"destroy", "copy", "take"}
    /\ \E s \in {ThreadCur(t)} : \E n \in {Step(s)} :
          /\ threads' = [threads EXCEPT ![t] =
                            [Merged(@, IF n.pc # "end" THEN n
                                       ELSE Return(n, IF threads[t].op = "destroy" THEN 0
                                                      ELSE n.dest))
                                EXCEPT !.torn = @ \/ HalfWritten(s.offset)]]
          /\ rc' = n.rc
          /\ urc' = n.urc
    /\ ThreadFrame

\* the layouts the threads traverse: a first field of a kind with non-null table
\* entries, of a type, or an enum (one extra tag byte; extra inhabitants 3 and 4),
\* then native strong references
ConcurrentFirst ==
    {f \in Fields :
        \/ f.k \in {NativeStrong, NativeUnowned, NativeWeak, Unknown, UnknownWeak, Bridge}
        \/ f.k = Existential /\ f.x \in {2, 3}
        \/ f.k = Metatype /\ f.x = 2
        \/ f.k = Resilient /\ f.x = 3
        \/ f.k = SinglePayloadEnumSimple /\ f.x \in {2, 4}}
ConcurrentSeqs(n) ==
    UNION {{<<f>> \o [j \in 1..m |-> PlainField] : f \in ConcurrentFirst} : m \in 0..(n - 1)}

\* the references of the given kind to object o that the values of the threads
\* 1..n own
RECURSIVE ThreadOwners(_, _, _, _)
ThreadOwners(fs, n, kind, o) ==
    IF n = 0 THEN 0 ELSE Owners(fs, 1, 1, n, kind, o) + ThreadOwners(fs, n - 1, kind, o)

\* thread t holds value variant t of the type in its buffer 1
InitConcurrent ==
    /\ \E fs \in ConcurrentSeqs(MaxEntries) :
          /\ layoutStr = Bytes(LayoutWords(fs, 8, LayoutBase))
          /\ size = Len(BufferBytes(fs, 8, 1, 1)) - 8
          /\ takable = \A i \in 1..Len(fs) : FieldTakable(fs[i])
          /\ threads = [t \in Threads |->
                            IdleThread(<<BufferBytes(fs, 8, 1, t), Fill(size + 8)>>)]
          /\ rc = [o \in Objs |-> (o - 1) + ThreadOwners(fs, NumThreads, "rc", o)]
          /\ urc = [o \in Objs |-> (o - 1) + ThreadOwners(fs, NumThreads, "urc", o)]
    /\ NoValues
    /\ fieldLayoutStr = <<>>
    /\ layoutStrOffset = 0
    /\ refCountBytes = 0
    /\ InitControl

NextConcurrent ==
    \/ \E t \in Threads, name \in {"destroy", "initWithCopy", "initWithTake"} :
            ThreadCall(t, name)
    \/ \E t \in Threads : ThreadStep(t)

SpecConcurrent == InitConcurrent /\ [][NextConcurrent]_vars

-----------------------------------------------------------------------------
(* A traversal of the buffer that the patch pass is writing *)

\* the sources patched: Resilient entries at top level and as the second entry of
\* an enum's payload
RaceFields ==
    {PlainField} \cup ResilientFields
        \cup {Field(SinglePayloadEnumSimple, 3, <<PlainField, r>>) : r \in ResilientFields}
RaceSeqs == UNION {[1..m -> RaceFields] : m \in 1..2}

\* the value the racing thread traverses: every word a pointer to object 1 (every
\* enum holds its payload)
RaceValue == Bytes([j \in 1..16 |-> W(1)])

InitRace ==
    /\ \E fs \in RaceSeqs : InitBuffers(fs, 0)
    /\ NoValues
    /\ takable = FALSE
    /\ rc = [o \in Objs |-> 8]
    /\ urc = [o \in Objs |-> 0]
    /\ size = Len(RaceValue)
    /\ InitControl
    /\ threads = <<IdleThread(<<RaceValue, RaceValue>>)>>

\* the patch pass, and one thread that traverses the destination at any time
NextRace ==
    \/ CallResolve
    \/ ResolveStep
    \/ ResolveWrite
    \/ ThreadCall(1, "destroy")
    \/ ThreadStep(1)

SpecRace == InitRace /\ [][NextRace]_vars

-----------------------------------------------------------------------------
(* Reading a layout string back, to state the properties *)

EntryTag(o) == layoutStr[o + 8]
EntrySkip(o) == LowVal(readBytes(layoutStr, o), 7)

\* the tags before the first End, the layout string read as one-word entries
RECURSIVE TagsFrom(_)
TagsFrom(o) == IF EntryTag(o) = End THEN <<>> ELSE <<EntryTag(o)>> \o TagsFrom(o + 8)
Tags == TagsFrom(layoutStringHeaderSize)

\* the layout string is one-word entries of kinds in K followed by End
MadeOf(K) == \A i \in 1..Len(Tags) : Tags[i] \in K

EntryOffset(i) == layoutStringHeaderSize + 8 * (i - 1)

\* the value offset of the i-th entry: the sum of the skips of the entries 1..i
RECURSIVE ValueOffset(_)
ValueOffset(i) == IF i = 0 THEN 0 ELSE ValueOffset(i - 1) + EntrySkip(EntryOffset(i))

\* the number of one-word entries before End that the running loop has consumed
Consumed ==
    ((offset - layoutStringHeaderSize) \div 8) - (IF pc = "idle" THEN 1 ELSE 0)

\* the calls made by the traversal itself
TopLevel(l) == SelectSeq(l, LAMBDA e : e.lvl = 0)

\* the kinds with a release (retain) callable in the build at hand
ReleaseKinds == {k \in TableKinds : destroyTable[k].fn # "nullptr"}
SingleRetainKinds ==
    {k \in TableKinds : retainTable[k].fn # "nullptr" /\ retainTable[k].isSingle}
ReservedKinds == {k \in TableKinds : destroyTable[k].fn = "nullptr"}

\* every callable named in destroyTable or retainTable, in either build
TableCallables ==
    ({destroyTable[k].fn : k \in 0..14} \cup {retainTable[k].fn : k \in 0..14}
        \cup {"_Block_release", "Block_copyForwarder", "objc_retain"}) \ {"nullptr"}

\* the callables of the destroy side and of the initialize side
DestroyFns ==
    StrongReleaseFns \cup {"swift_unownedRelease", "swift_weakDestroy",
        "swift_unknownObjectUnownedDestroy", "swift_unknownObjectWeakDestroy",
        "existential_destroy", "vw_destroy"}
InitFns ==
    StrongRetainFns \cup {"memcpy", "swift_unownedRetain", "swift_weakCopyInit",
        "swift_unknownObjectUnownedCopyInit", "swift_unknownObjectWeakCopyInit",
        "Block_copyForwarder", "existential_initializeWithCopy",
        "vw_initializeBufferWithCopyOfBuffer", "vw_initializeWithCopy",
        "swift_unknownObjectWeakTakeInit", "vw_initializeWithTake"}

-----------------------------------------------------------------------------
(* C1: the fan-out of swift_generic_destroy *)

\* the call destroy makes for the i-th entry of a layout of release kinds
DestroyCall(i) ==
    LET f == destroyTable[Tags[i]]
        ao == ValueOffset(i)
    IN [fn |-> f.fn,
        args |-> <<IF f.isIndirect THEN PtrArg(readBytes(entry.mem[entry.dest], ao))
                   ELSE AddrArg(entry.dest, ao)>>,
        lvl |-> 0]

\* C1: on a layout string of N one-word entries of table-driven kinds with a
\* non-null release callable, swift_generic_destroy makes exactly one release-table
\* call per entry consumed, in layout order, the i-th for value offset
\* skip_1 + ... + skip_i (the pointer stored there for indirect kinds, the field
\* address for direct ones); when it has returned it has made N calls, none for End,
\* and it has written no byte of the value.
C1_DestroyFanOut ==
    (op = "destroy" /\ MadeOf(ReleaseKinds)) =>
        /\ pc \in {"destroy", "idle"}
        /\ Consumed \in 0..Len(Tags)
        /\ pc = "idle" => Consumed = Len(Tags)
        /\ \E made \in {TopLevel(log)} :
              /\ Len(made) = Consumed
              /\ \A i \in 1..Consumed : made[i] = DestroyCall(i)
        /\ mem = entry.mem

\* a destroy that has returned after an indirect release at offset 8 and a direct
\* one at offset 16
C1_Witness ==
    /\ op = "destroy" /\ pc = "idle"
    /\ Tags = <<NativeStrong, UnknownWeak>>
    /\ Len(log) = 2
    /\ log[1] = [fn |-> "swift_release", args |-> <<PtrArg(readBytes(mem[dest], 8))>>,
                 lvl |-> 0]
    /\ log[2] = [fn |-> "swift_unknownObjectWeakDestroy", args |-> <<AddrArg(dest, 16)>>,
                 lvl |-> 0]

-----------------------------------------------------------------------------
(* C2: swift_generic_initWithTake and the tables *)

\* C2: whatever the layout string and whether or not the type is bitwise-takable,
\* swift_generic_initWithTake calls no callable of destroyTable or retainTable, and
\* the strong and unowned counts are what they were when it was called.
C2_TakeCallsNoTableCallable ==
    op = "initWithTake" =>
        /\ \A i \in 1..Len(log) : log[i].fn \notin TableCallables
        /\ rc = entry.rc
        /\ urc = entry.urc

\* a take of a non-takable type has walked a strong reference to a counted object
\* and a weak one, and has returned
C2_Witness ==
    /\ op = "initWithTake" /\ pc = "idle" /\ ~takable
    /\ Tags = <<NativeStrong, UnknownWeak>>
    /\ ObjOf(readBytes(mem[dest], ValueOffset(1))) # 0
    /\ \E i \in 1..Len(log) : log[i].fn = "swift_unknownObjectWeakTakeInit"
    /\ result = dest

-----------------------------------------------------------------------------
(* C3: copy, then destroy the original, then destroy the copy *)

\* the k-th call copies a value and the next one destroys the original
CopyThenDestroyOriginal(k) ==
    /\ k + 1 <= calls
    /\ hist[k].op = "initWithCopy"
    /\ hist[k + 1].op = "destroy"
    /\ hist[k + 1].dest = hist[k].src

\* the object the only field of the original referred to when call k started
Referent(k) == ObjOf(readBytes(hist[k].mem[hist[k].src], ValueOffset(1)))

\* C3: for a value of one native strong field whose referent has count c,
\* initWithCopy(copy, original) then destroy(original) leaves the count at c and
\* never lets it reach zero on the way; a later destroy(copy) makes exactly one
\* swift_release, of the referent, and leaves c - 1.
C3_CopyDestroyRoundTrip ==
    Tags = <<NativeStrong>> =>
        \A k \in 1..calls :
            LET o == Referent(k)
                c == hist[k].rc[o]
            IN /\ (hist[k].op = "initWithCopy" /\ calls = k) =>
                      rc[o] >= c /\ rc[o] >= 1
               /\ (CopyThenDestroyOriginal(k) /\ calls = k + 1) =>
                      /\ rc[o] >= 1
                      /\ pc = "idle" => rc[o] = c
               /\ (CopyThenDestroyOriginal(k) /\ calls >= k + 2) =>
                      hist[k + 2].rc[o] = c
               /\ (/\ CopyThenDestroyOriginal(k) /\ calls = k + 2
                   /\ hist[k + 2].op = "destroy" /\ hist[k + 2].dest = hist[k].dest
                   /\ pc = "idle") =>
                      /\ rc[o] = c - 1
                      /\ log = <<[fn |-> "swift_release", args |-> <<PtrArg(W(o))>>,
                                  lvl |-> 0]>>

\* the copy of a value whose referent had count 1 has been destroyed after the
\* original, and the count is 0
C3_Witness ==
    /\ Tags = <<NativeStrong>>
    /\ calls = 3 /\ pc = "idle"
    /\ CopyThenDestroyOriginal(1)
    /\ hist[3].op = "destroy" /\ hist[3].dest = hist[1].dest
    /\ hist[1].rc[Referent(1)] = 1
    /\ hist[3].rc[Referent(1)] = 1
    /\ rc[Referent(1)] = 0

-----------------------------------------------------------------------------
(* C4: swift_generic_initWithCopy on single-argument kinds *)

\* the retain initWithCopy makes for the i-th entry of a layout of single kinds
RetainCall(i) ==
    [fn |-> retainTable[Tags[i]].fn,
     args |-> <<PtrArg(readBytes(entry.mem[entry.src], ValueOffset(i)))>>,
     lvl |-> 0]

\* C4: swift_generic_initWithCopy first copies vw_size() bytes of src to dest and
\* only then retains; on a layout string of single-argument kinds it makes the
\* retain of each entry consumed once, in order, with the pointer src holds at the
\* entry's cumulative offset; dest equals src over the whole size from the copy
\* on; it returns dest.
C4_CopyThenRetains ==
    (op = "initWithCopy" /\ MadeOf(SingleRetainKinds)) =>
        /\ pc \in {"copy", "idle"}
        /\ Len(log) = 1 + Consumed
        /\ log[1] = [fn |-> "memcpy",
                     args |-> <<AddrArg(dest, 0), AddrArg(src, 0), <<"size", <<size>>>>>>,
                     lvl |-> 0]
        /\ \A i \in 1..Consumed : log[i + 1] = RetainCall(i)
        /\ SubSeq(mem[dest], 1, size) = SubSeq(entry.mem[src], 1, size)
        /\ mem[src] = entry.mem[src]
        /\ pc = "idle" => Consumed = Len(Tags) /\ result = dest

\* a copy of a bridge object and a native strong reference has returned: the bulk
\* copy, then the two retains
C4_Witness ==
    /\ op = "initWithCopy" /\ pc = "idle"
    /\ Tags = <<Bridge, NativeStrong>>
    /\ Len(log) = 3
    /\ log[1].fn = "memcpy"
    /\ log[2].fn = "swift_bridgeObjectRetain"
    /\ log[3].fn = "swift_retain"
    /\ mem[dest] # entry.mem[dest]
    /\ result = dest

-----------------------------------------------------------------------------
(* C5: the assign functions *)

AssignOps == {"assignWithCopy", "assignWithTake"}

\* the state the running call found
EntryState ==
    [pc |-> "idle", dest |-> entry.dest, src |-> entry.src, offset |-> 0,
     addrOffset |-> 0, mem |-> entry.mem, rc |-> entry.rc, urc |-> entry.urc,
     log |-> <<>>, result |-> 0]

\* swift_generic_destroy(dest) run to its end from s, followed (if it returns) by
\* the initWithCopy / initWithTake of the assign at hand run to its end
DestroyThenInit(s) ==
    CHOOSE r \in
        {IF d.pc # "end" THEN d
         ELSE CHOOSE e \in
                {IF i.pc = "end" THEN Return(i, entry.dest) ELSE i :
                    i \in {Run(IF op = "assignWithCopy"
                                 THEN swift_generic_initWithCopy(d, entry.dest, entry.src)
                                 ELSE swift_generic_initWithTake(d, entry.dest, entry.src))}} :
                TRUE :
            d \in {Run(swift_generic_destroy(s, entry.dest))}} : TRUE

\* C5: a swift_generic_assignWithCopy (assignWithTake) that has ended has made
\* the calls of swift_generic_destroy(dest) followed by those of
\* swift_generic_initWithCopy (initWithTake)(dest, src), with the same effect on
\* memory and counts, and has returned dest; at any time every call of the destroy
\* side precedes the bulk copy and every retain or take-initialize call.
C5_AssignIsDestroyThenInit ==
    op \in AssignOps =>
        /\ pc \in {"idle", "fatal"} =>
              \E e \in {DestroyThenInit(EntryState)} :
                  /\ log = e.log /\ mem = e.mem /\ rc = e.rc /\ urc = e.urc
                  /\ pc = e.pc /\ result = e.result
        /\ pc = "idle" => result = entry.dest /\ dest = entry.dest
        /\ \A i, j \in 1..Len(log) :
              (log[i].fn \in DestroyFns /\ log[j].fn \in InitFns) => i < j
        /\ Cardinality({i \in 1..Len(log) : log[i].fn = "memcpy"}) <= 1
        /\ pc \in {"copy", "take", "idle"} => \E i \in 1..Len(log) : log[i].fn = "memcpy"

\* an assignWithCopy has returned after a release, the bulk copy and a retain
C5_Witness ==
    /\ op = "assignWithCopy" /\ pc = "idle" /\ result = dest
    /\ \E i, j, k \in 1..Len(log) :
          /\ i < j /\ j < k
          /\ log[i].fn = "swift_release"
          /\ log[j].fn = "memcpy"
          /\ log[k].fn = "swift_retain"

-----------------------------------------------------------------------------
(* C6, C7: the enum payload classifier *)

\* the last loop iteration consumed a SinglePayloadEnumSimple entry
EnumClassified ==
    /\ prev[1] >= layoutStringHeaderSize
    /\ EntryTag(prev[1]) = SinglePayloadEnumSimple

\* the fields of the header of the enum entry at offset o of the layout string
ExtraTagBytesPattern(o) == layoutStr[o + 16] \div 64
XiTagBytesPattern(o) == (layoutStr[o + 16] \div 8) % 8
PayloadSize(o) == LowVal(readBytes(layoutStr, o + 16), 8)
EnumRefCountBytes(o) == LowVal(readBytes(layoutStr, o + 40), 8)
TrailingSkip(o) == LowVal(readBytes(layoutStr, o + 48), 8)

\* the value offset of the enum the last iteration classified
EnumValueOffset == prev[2] + EntrySkip(prev[1])

\* the value bytes the running loop classifies: those of src once the bulk copy
\* is made, those of dest before
ClassifiedBytes(m) ==
    IF \E i \in 1..Len(log) : log[i].fn = "memcpy" THEN m[src] ELSE m[dest]

\* C6: an enum entry with extraTagBytesPattern = 0 and xiTagBytesPattern = 0 is
\* classified as holding its payload: the cursor is left at the first entry of the
\* payload's sub-layout and the value offset at the enum (no trailing skip added).
C6_ZeroPatternsPayloadPresent ==
    (/\ EnumClassified
     /\ ExtraTagBytesPattern(prev[1]) = 0
     /\ XiTagBytesPattern(prev[1]) = 0) =>
        /\ offset = prev[1] + 56
        /\ addrOffset = EnumValueOffset

\* the extra tag byte of the enum the last iteration classified, in the bytes m
ExtraTagByte(m) == ClassifiedBytes(m)[EnumValueOffset + PayloadSize(prev[1]) + 1]

\* C7: an enum entry with extraTagBytesPattern = 1 whose extra tag byte is not zero
\* is classified as holding no payload, whatever the byte's value: the cursor is
\* left past the header and refCountBytes bytes of sub-layout, the value offset
\* is advanced by the trailing skip; both positions depend on the layout only.
C7_NonzeroExtraTagNoPayload ==
    (/\ EnumClassified
     /\ ExtraTagBytesPattern(prev[1]) = 1
     /\ ExtraTagByte(mem) # 0) =>
        /\ offset = prev[1] + 56 + EnumRefCountBytes(prev[1])
        /\ addrOffset = EnumValueOffset + TrailingSkip(prev[1])

\* the second of two destroys has classified an enum whose extra tag byte is 2,
\* the first one an enum of the same layout whose extra tag byte is 1
C7_Witness ==
    /\ calls = 2 /\ op = "destroy" /\ hist[1].op = "destroy"
    /\ EnumClassified
    /\ ExtraTagBytesPattern(prev[1]) = 1
    /\ TrailingSkip(prev[1]) > 0
    /\ ExtraTagByte(mem) = 2
    /\ hist[1].mem[hist[1].dest][EnumValueOffset + PayloadSize(prev[1]) + 1] = 1
    /\ offset = prev[1] + 56 + EnumRefCountBytes(prev[1])

-----------------------------------------------------------------------------
(* C10: reserved kinds *)

\* C10: in swift_generic_destroy, swift_generic_initWithCopy and the loop of
\* swift_generic_initWithTake, an iteration that consumed an entry of a reserved
\* kind (null in the tables) has ended the process: the loop does not go on and
\* the function does not return.
C10_ReservedKindIsFatal ==
    (/\ prev[1] >= layoutStringHeaderSize
     /\ EntryTag(prev[1]) \in ReservedKinds) =>
        pc = "fatal"

-----------------------------------------------------------------------------
(* C8, C9: the patch pass *)

\* the byte width of an entry as the traversal reads it: two words for Metatype
\* and Resilient, the tag word and six header words for an enum (the entries of
\* its payload follow it), one word otherwise
EntryWidth(tag) ==
    IF tag \in {Metatype, Resilient} THEN 16
    ELSE IF tag = SinglePayloadEnumSimple THEN 56
    ELSE 8

\* the offsets in buf of the entries from o up to end, nested ones included
RECURSIVE EntryStarts(_, _, _)
EntryStarts(buf, o, end) ==
    IF o >= end THEN {} ELSE {o} \cup EntryStarts(buf, o + EntryWidth(buf[o + 8]), end)

SourceEntries ==
    EntryStarts(fieldLayoutStr, layoutStringHeaderSize, layoutStringHeaderSize + refCountBytes)
ResilientEntries == {e \in SourceEntries : fieldLayoutStr[e + 8] = Resilient}

\* where the entry at offset e of the source is in the destination
DestOf(e) == layoutStrOffset + (e - layoutStringHeaderSize)

\* C8: when swift_resolve_resilientAccessors has returned, the destination holds a
\* Metatype entry at the place of every Resilient entry of the source range, the
\* entries of an enum's payload (the first one and the later ones) included.
C8_NoResilientRemains ==
    (op = "resolve" /\ pc = "idle") =>
        \A e \in ResilientEntries : layoutStr[DestOf(e) + 8] = Metatype

\* the words a patched Resilient entry e holds in the destination
PatchedTag(e) == [readBytes(fieldLayoutStr, e) EXCEPT ![8] = Metatype]
PatchedPointer(e) ==
    W(AccessorResult(FieldLayoutBase + (e + 8) + Int32(readBytes(fieldLayoutStr, e + 8))))

\* buf with the two words at the place of each entry of the set es zeroed
RECURSIVE Blanked(_, _)
Blanked(buf, es) ==
    IF es = {} THEN buf
    ELSE LET e == CHOOSE x \in es : TRUE
         IN Blanked(writeBytes(writeBytes(buf, DestOf(e), ZeroWord), DestOf(e) + 8, ZeroWord),
                    es \ {e})

-----------------------------------------------------------------------------
(* C11: weak references in swift_generic_initWithTake *)

\* the last iteration of the take loop consumed an entry
TakeConsumed == pc = "take" /\ prev[1] >= layoutStringHeaderSize

\* the value offset of the entry the last iteration consumed
ConsumedValueOffset == prev[2] + EntrySkip(prev[1])

\* the calls the last iteration made
StepCalls == SubSeq(log, prev[3] + 1, Len(log))

WeakKinds == {NativeWeak, UnknownWeak}
WeakTakeInitFns == {"swift_weakTakeInit", "swift_unknownObjectWeakTakeInit"}

\* C11: in swift_generic_initWithTake on a type that is not bitwise-takable, the
\* iteration that consumes a weak entry (NativeWeak or UnknownWeak) makes exactly
\* one call, a take-initialize of the weak slot, with the arguments
\* (dest + offset, src + offset) at the entry's cumulative offset.
C11_WeakEntriesTakeInit ==
    (TakeConsumed /\ EntryTag(prev[1]) \in WeakKinds) =>
        /\ Len(StepCalls) = 1
        /\ StepCalls[1].fn \in WeakTakeInitFns
        /\ StepCalls[1].args = <<AddrArg(dest, ConsumedValueOffset),
                                 AddrArg(src, ConsumedValueOffset)>>

-----------------------------------------------------------------------------
(* C13, C14, C15: the outcomes of the enum payload classifier *)

\* the extra tag bytes of the enum the last iteration classified, read after the
\* payload region of the value bytes m
ExtraTagBytes(m) ==
    readTagBytes(ClassifiedBytes(m), EnumValueOffset + PayloadSize(prev[1]),
                 2 ^ (ExtraTagBytesPattern(prev[1]) - 1))

\* the two outcomes: the cursor at the first entry of the payload's sub-layout and
\* the value offset at the enum, or the sub-layout skipped and the trailing skip added
PayloadOutcome ==
    /\ offset = prev[1] + 56
    /\ addrOffset = EnumValueOffset
NoPayloadOutcome ==
    /\ offset = prev[1] + 56 + EnumRefCountBytes(prev[1])
    /\ addrOffset = EnumValueOffset + TrailingSkip(prev[1])

\* C13: for an enum entry with extraTagBytesPattern != 0 and xiTagBytesPattern = 0
\* the classifier reports no payload exactly when the extra tag bytes read after
\* the payload region are nonzero; when they are zero the payload is present and
\* the loop goes on with the entries of its sub-layout.
C13_ExtraTagOnlyClassification ==
    (/\ EnumClassified
     /\ ExtraTagBytesPattern(prev[1]) # 0
     /\ XiTagBytesPattern(prev[1]) = 0) =>
        IF ExtraTagBytes(mem) # ZeroWord THEN NoPayloadOutcome ELSE PayloadOutcome

\* the extra-inhabitant parameters of the enum entry at offset o
XiTagBytesOffset(o) == LowVal(readBytes(layoutStr, o + 8), 4)
ZeroTagValue(o) == LowVal(readBytes(layoutStr, o + 24), 8)
XiTagValues(o) == LowVal(readBytes(layoutStr, o + 32), 8)

\* t: the xiTagBytes-wide unsigned value at offset xiTagBytesOffset of the payload
\* of the enum the last iteration classified, in the value bytes m
XiTagValue(m) ==
    LowVal(readTagBytes(ClassifiedBytes(m), EnumValueOffset + XiTagBytesOffset(prev[1]),
                        2 ^ (XiTagBytesPattern(prev[1]) - 1)), 8)

\* (t - z) mod 2^64 >= n for t, z, n below 2^24: when t < z the difference wraps
\* to 2^64 - (z - t), which is above every such n
WrappedGE(t, z, n) == IF t >= z THEN t - z >= n ELSE TRUE

\* C14: for an enum entry with extraTagBytesPattern = 0 and xiTagBytesPattern != 0
\* the classifier reports a payload if and only if (t - zeroTagValue) mod 2^64 >=
\* xiTagValueCount; a value t below zeroTagValue wraps around and is a payload.
C14_XiWrapsToPayload ==
    (/\ EnumClassified
     /\ ExtraTagBytesPattern(prev[1]) = 0
     /\ XiTagBytesPattern(prev[1]) # 0) =>
        IF WrappedGE(XiTagValue(mem), ZeroTagValue(prev[1]), XiTagValues(prev[1]))
        THEN PayloadOutcome
        ELSE NoPayloadOutcome

\* a value below zeroTagValue was read (one tag byte, zeroTagValue 3) and the
\* payload's sub-layout is the next thing the loop executes
C14_Witness ==
    /\ EnumClassified
    /\ ExtraTagBytesPattern(prev[1]) = 0
    /\ XiTagBytesPattern(prev[1]) = 1
    /\ XiTagValue(mem) < ZeroTagValue(prev[1])
    /\ XiTagValues(prev[1]) = 2
    /\ PayloadOutcome

\* what the classifier decides for the enum the last iteration classified, as lines
\* 165-192 decide it: a payload when the extra tag bytes (if any) are zero and the
\* extra-inhabitant tag (which must exist) is out of the range of the empty cases
ReportsPayload ==
    /\ ExtraTagBytesPattern(prev[1]) # 0 => ExtraTagBytes(mem) = ZeroWord
    /\ XiTagBytesPattern(prev[1]) # 0
    /\ WrappedGE(XiTagValue(mem), ZeroTagValue(prev[1]), XiTagValues(prev[1]))

\* the offsets of the entries of the sub-layout of the enum entry at offset o
SubLayout(o) == EntryStarts(layoutStr, o + 56, o + 56 + EnumRefCountBytes(o))

\* C15: the classifier makes no call and consumes the same 56 bytes (tag word and
\* header) in every outcome; in a no-payload outcome the cursor is refCountBytes
\* past the header, so that no entry of the sub-layout is reached by the loop (the
\* cursor only moves forward), and the value offset is advanced by the trailing
\* skip; with the payload present the loop runs the sub-layout's entries and comes
\* out at that same position, the end of the enum's encoded range.
C15_NoPayloadSkipsSubLayout ==
    /\ EnumClassified =>
          /\ Len(log) = prev[3]
          /\ IF ReportsPayload THEN PayloadOutcome ELSE NoPayloadOutcome
    /\ (pc \in {"destroy", "copy", "take"} /\ prev[1] >= layoutStringHeaderSize) =>
          /\ offset > prev[1]
          /\ \A o \in {layoutStringHeaderSize} :
                (EntryTag(o) = SinglePayloadEnumSimple /\ prev[1] > o
                    /\ prev[1] < o + 56 + EnumRefCountBytes(o)) =>
                    /\ prev[1] \in SubLayout(o)
                    /\ offset <= o + 56 + EnumRefCountBytes(o)

\* a no-payload outcome over a sub-layout of two entries: the cursor is 16 bytes
\* past the header, the value offset 8 bytes past the enum
C15_Witness ==
    /\ EnumClassified
    /\ ~ReportsPayload
    /\ EnumRefCountBytes(prev[1]) = 16
    /\ offset = prev[1] + 72
    /\ addrOffset = EnumValueOffset + 8
    /\ pc \in {"destroy", "copy", "take"}

-----------------------------------------------------------------------------
(* C16: a Resilient entry and the Metatype entry that stands for it *)

\* one of the three loops consumed, in its last iteration, an entry that is not End
LoopConsumed ==
    /\ pc \in {"destroy", "copy", "take"}
    /\ prev[1] >= layoutStringHeaderSize

\* the sub-metadata of the Metatype or Resilient entry at offset o: the one the
\* stored pointer points to, or the one returned by the accessor whose address is
\* the stored offset away from the offset field
EntryType(o) ==
    IF EntryTag(o) = Metatype THEN TypeOf(readBytes(layoutStr, o + 8))
    ELSE IF \E t \in Types :
                readBytes(layoutStr, o + 8) = SignedWord(AccessorAddr(t) - (LayoutBase + o + 8))
    THEN CHOOSE t \in Types :
                readBytes(layoutStr, o + 8) = SignedWord(AccessorAddr(t) - (LayoutBase + o + 8))
    ELSE 0

\* the witness call each loop makes for a field of type t at value offset ao
WitnessCalls(t, ao) ==
    CASE pc = "destroy" ->
            <<[fn |-> "vw_destroy", args |-> <<TypeArg(t), AddrArg(dest, ao)>>, lvl |-> 0]>>
      [] pc = "copy" ->
            <<[fn |-> "vw_initializeWithCopy",
               args |-> <<TypeArg(t), AddrArg(dest, ao), AddrArg(src, ao)>>, lvl |-> 0]>>
      [] pc = "take" ->
            IF isBitwiseTakable(t) THEN <<>>
            ELSE <<[fn |-> "vw_initializeWithTake",
                    args |-> <<TypeArg(t), AddrArg(dest, ao), AddrArg(src, ao)>>, lvl |-> 0]>>

\* the accessor call of a Resilient entry of type t
AccessorCalls(t) ==
    <<[fn |-> "accessor", args |-> <<CodeArg(AccessorAddr(t)), GenericArgs>>, lvl |-> 0]>>

\* C16: in destroy, copy-init and take-init alike, the iteration that consumes a
\* Resilient entry makes the witness call, and leaves the cursor and the value
\* offset, that the Metatype entry with the accessor's result and the same skip
\* gives (one function of the sub-metadata and the skip describes both), after
\* exactly one call of the accessor with the owning metadata's generic arguments.
C16_ResilientAsMetatype ==
    (LoopConsumed /\ EntryTag(prev[1]) \in {Metatype, Resilient}) =>
        /\ offset = prev[1] + 16
        /\ addrOffset = ConsumedValueOffset
        /\ EntryType(prev[1]) # 0
        /\ StepCalls =
              (IF EntryTag(prev[1]) = Resilient THEN AccessorCalls(EntryType(prev[1]))
               ELSE <<>>) \o WitnessCalls(EntryType(prev[1]), ConsumedValueOffset)

\* a Resilient entry whose accessor is before the layout string (a negative
\* offset) was consumed by the take loop at a nonzero value offset: two calls
C16_Witness ==
    /\ LoopConsumed
    /\ pc = "take"
    /\ EntryTag(prev[1]) = Resilient
    /\ EntryType(prev[1]) = 2
    /\ ConsumedValueOffset = 8
    /\ Len(StepCalls) = 2
    /\ StepCalls[1].fn = "accessor"
    /\ StepCalls[2].fn = "vw_initializeWithTake"

-----------------------------------------------------------------------------
(* C17: the read cursor of the patch pass *)

\* C17: throughout swift_resolve_resilientAccessors, every word the pass is about
\* to read as a {skip, tag} word is the tag word of an entry of the source, that
\* is, an offset the traversal loop reaches too: the width the pass skips for an
\* enum entry is the width of the header the classifier consumes.
C17_ResolveCursorAligned ==
    (/\ op = "resolve"
     /\ pc = "resolve"
     /\ offset < layoutStringHeaderSize + refCountBytes) =>
        offset \in SourceEntries

-----------------------------------------------------------------------------
(* C18: the three traversals of one value *)

\* the offsets of the entries of the layout string, nested ones included
LayoutEntries ==
    EntryStarts(layoutStr, layoutStringHeaderSize,
                layoutStringHeaderSize + LowVal(readBytes(layoutStr, 8), 8))

\* no entry is of a kind whose table entries are null
WellFormed ==
    \A e \in LayoutEntries :
        EntryTag(e) \in TableKinds => destroyTable[EntryTag(e)].fn # "nullptr"

\* the last iteration was one of swift_generic_initWithCopy or of the loop of
\* swift_generic_initWithTake (the one that consumed End included)
InitIterated ==
    /\ prev[1] >= layoutStringHeaderSize
    /\ \/ pc \in {"copy", "take"}
       \/ pc = "idle" /\ op \notin {"none", "destroy"}

\* what one handleNextRefCount<DestroyHandler> does on the source value from the
\* cursor the last iteration started at
DestroyFromPrev ==
    handleNextRefCount("destroy", [Cur EXCEPT !.pc = "destroy", !.dest = src,
                                              !.offset = prev[1], !.addrOffset = prev[2],
                                              !.log = <<>>])

\* the traversal itself made, among the calls cs, the call of the table entry
\* `callable` of the kind of the entry the last iteration consumed
MadeCall(cs, callable) ==
    /\ EntryTag(prev[1]) \in TableKinds
    /\ \E i \in 1..Len(cs) : cs[i].lvl = 0 /\ cs[i].fn = callable[EntryTag(prev[1])].fn

\* C18: on a well-formed layout string, every iteration of copy-init and of
\* take-init (of a type that is not bitwise-takable) on the source v takes the
\* cursor and the value offset from where it started to where one iteration of
\* swift_generic_destroy on v takes them, and ends the loop when that one does:
\* from the common start the three visit the same (entry kind, value offset) pairs
\* and stop at the same End.  An iteration of copy-init makes the retain-table call
\* of the entry's kind exactly when that iteration of destroy makes its
\* release-table call.
C18_SameTraversal ==
    (InitIterated /\ WellFormed) =>
        \E d \in {DestroyFromPrev} :
            /\ d.pc # "fatal"
            /\ d.offset = offset
            /\ d.addrOffset = addrOffset
            /\ (d.pc = "end") <=> (pc = "idle")
            /\ (pc = "copy" \/ op \in {"initWithCopy", "assignWithCopy"}) =>
                  /\ MadeCall(StepCalls, retainTable) <=> MadeCall(d.log, destroyTable)
                  /\ MadeCall(StepCalls, retainTable) <=> EntryTag(prev[1]) \in TableKinds

\* the take loop, past an enum whose payload it skipped, consumed an UnknownWeak
\* entry
C18_Witness ==
    /\ InitIterated
    /\ WellFormed
    /\ pc = "take"
    /\ EntryTag(layoutStringHeaderSize) = SinglePayloadEnumSimple
    /\ EntryTag(prev[1]) = UnknownWeak
    /\ prev[1] = layoutStringHeaderSize + 56 + EnumRefCountBytes(layoutStringHeaderSize)
    /\ addrOffset > 16

-----------------------------------------------------------------------------
(* C19: reference counts during swift_generic_assignWithCopy *)

\* the strong releases swift_generic_destroy would make on the value buffer b held
\* when the running call started: one per strong reference the value owns
ReleasesOf(b) ==
    SelectSeq(Run(swift_generic_destroy(EntryState, b)).log,
              LAMBDA e : e.fn \in StrongReleaseFns /\ ObjOf(e.args[1][2]) # 0)

\* the number of strong references to object o among the releases rs
RECURSIVE RefsTo(_, _)
RefsTo(rs, o) ==
    IF rs = <<>> THEN 0
    ELSE (IF ObjOf(Head(rs).args[1][2]) = o THEN 1 ELSE 0) + RefsTo(Tail(rs), o)

\* a strong retain of object o is in the log
Retained(o) ==
    \E i \in 1..Len(log) : log[i].fn \in StrongRetainFns /\ ObjOf(log[i].args[1][2]) = o

\* C19: during swift_generic_assignWithCopy(dest, src, m) with dest and src
\* distinct buffers that own their strong references (the count of an object
\* covers the references of both), every object src refers to has a count of at
\* least 1 in every state, so every retain finds a live object; with dest == src
\* and src the sole owner of an object, the count of that object is zero when the
\* destroy phase has ended, before the copy phase retains it.  (An object is
\* exempt when src holds no reference to it or the counts on entry do not cover
\* the references held.)
C19_AssignCountsStayPositive ==
    (op = "assignWithCopy" /\ pc # "fatal") =>
        \A o \in Objs :
            IF entry.dest # entry.src
            THEN \/ rc[o] >= 1
                 \/ \E rs \in {ReleasesOf(entry.src)}, rd \in {ReleasesOf(entry.dest)} :
                        \/ RefsTo(rs, o) = 0
                        \/ entry.rc[o] < RefsTo(rs, o) + RefsTo(rd, o)
            ELSE \/ /\ pc = "assign" => rc[o] = 0 /\ ~Retained(o)
                    /\ Retained(o) => pc \in {"copy", "idle"}
                 \/ \E rs \in {ReleasesOf(entry.src)} :
                        \/ RefsTo(rs, o) = 0
                        \/ entry.rc[o] # RefsTo(rs, o)

\* the aliased call on a sole owner: the object's count is zero after the destroy
\* phase and the copy phase has then retained it
C19_Witness ==
    /\ op = "assignWithCopy"
    /\ entry.dest = entry.src
    /\ pc = "idle"
    /\ \E o \in Objs :
          /\ entry.rc[o] = 1
          /\ RefsTo(ReleasesOf(entry.src), o) = 1
          /\ Retained(o)
          /\ \E i, j \in 1..Len(log) :
                /\ i < j
                /\ log[i].fn = "swift_release" /\ ObjOf(log[i].args[1][2]) = o
                /\ log[j].fn = "swift_retain" /\ ObjOf(log[j].args[1][2]) = o

-----------------------------------------------------------------------------
(* C12: concurrent traversals that share a layout string *)

IsPrefix(a, b) == Len(a) <= Len(b) /\ a = SubSeq(b, 1, Len(a))

\* C12: with any of destroy, copy-init and take-init running in each thread, in
\* any interleaving, on values of their own that share one layout string (and
\* heap objects): the layout string stays as every traversal found it, and the
\* calls each traversal has made are a prefix of -- when it has returned, exactly
\* -- the calls the same traversal makes when run alone from its first state; its
\* buffers end as they do alone.
C12_ConcurrentTraversalsIndependent ==
    \A t \in Threads :
        threads[t].op # "none" =>
            /\ layoutStr = threads[t].layout
            /\ IsPrefix(threads[t].log, threads[t].alone.log)
            /\ threads[t].pc = "idle" =>
                  /\ threads[t].log = threads[t].alone.log
                  /\ threads[t].mem = threads[t].alone.mem

\* two threads are in the middle of different traversals, each past its first
\* entry, and a third party's count shows both at work: one has released and the
\* other retained
C12_Witness ==
    \E t, u \in Threads :
        /\ threads[t].pc = "destroy" /\ threads[t].offset > layoutStringHeaderSize
        /\ threads[u].pc = "copy" /\ threads[u].offset > layoutStringHeaderSize
        /\ \E i \in 1..Len(threads[t].log) : threads[t].log[i].fn = "swift_release"
        /\ \E i \in 1..Len(threads[u].log) : threads[u].log[i].fn = "swift_retain"

-----------------------------------------------------------------------------
(* C20: the two writes of the patch pass and a concurrent traversal *)

\* C20: a traversal that starts when swift_resolve_resilientAccessors has returned
\* never reads a half-written entry (a Metatype tag word over the relative offset
\* the entry held before); only a traversal that started earlier, concurrently
\* with the pass, can read one (the state of C20_Witness is such a read).
C20_HalfWrittenOnlyWhenRacing ==
    \A t \in DOMAIN threads : threads[t].afterPatch => ~threads[t].torn

\* between the two writes of the pass (the tag word is written, the pointer is
\* pending) the traversal has consumed that very entry: it read the Metatype tag,
\* took the relative offset for a metadata pointer and called vw_destroy on it
C20_Witness ==
    /\ pc = "resolveWrite"
    /\ threads[1].pc = "destroy"
    /\ threads[1].torn
    /\ threads[1].offset = pending[1] + 8
    /\ layoutStr[pending[1]] = Metatype
    /\ readBytes(layoutStr, pending[1]) = readBytes(entry.layoutStr, pending[1])
    /\ threads[1].log[Len(threads[1].log)].fn = "vw_destroy"
    /\ threads[1].log[Len(threads[1].log)].args[1] = TypeArg(0)

====
